---- MODULE Spec2Model ----
(***************************************************************************)
(* State machine of src/app.py: a Streamlit chat page that forwards        *)
(* prompts to a Gemini chat session, keeps a visible transcript            *)
(* (st.session_state.messages) and an export log                           *)
(* (st.session_state.history_log), and rebuilds the session from a         *)
(* bounded window of the transcript when the API signals quota exhaustion. *)
(*                                                                         *)
(* One script run of the page is one cycle.  A cycle that processes a      *)
(* prompt is split at the points where the script waits on the API         *)
(* (pc = "sending", one step per streamed fragment, then pc = "record");   *)
(* every other cycle is one step.  st.rerun() and st.stop() end the        *)
(* script run where they are called (they raise script-control exceptions  *)
(* that the `except Exception` clauses of the script do not catch); both   *)
(* leave the page waiting for the next interaction (pc = "idle").          *)
(* Timestamps of log entries are not modelled.                             *)
(***************************************************************************)
EXTENDS Integers, Sequences, FiniteSets, TLC

VARIABLES
    gemini_chat,     \* st.session_state.gemini_chat: [id, model, history]; id = 0: absent
    model_name,      \* st.session_state.model_name
    selected_model,  \* value of the model selectbox
    auto_log,        \* st.session_state.auto_log
    messages,        \* st.session_state.messages: sequence of [role, content]
    history_log,     \* st.session_state.history_log: sequence of [Role, Content, Model]
    pc,              \* position of the script: "idle", "sending", "record"
    prompt,          \* the prompt being processed
    response,        \* fragments of the streamed reply not yet received
    full_response,   \* the accumulated reply text
    last,            \* kind of the current / most recent cycle
    pre,             \* session state at the start of the current / most recent cycle
    restoreFrom,     \* history_to_restore as passed to the most recent restoring call
    nsub,            \* number of prompts submitted so far
    dev,             \* number of non-routine events so far
    nchat,           \* number of chat sessions created so far
    restorations     \* restorations completed since the last full reset

vars == <<gemini_chat, model_name, selected_model, auto_log, messages, history_log,
          pc, prompt, response, full_response, last, pre, restoreFrom,
          nsub, dev, nchat, restorations>>

\* ---------------------------------------------------------------- bounds
MaxSubmits == 8
MaxDeviations == 2

\* ------------------------------------------------------------- constants
DEFAULT_MODEL == "gemini-2.0-flash"
\* ASCII rendering of the Korean notice text
RESTART_MESSAGE == "API request error (429 etc.): keeping only the previous 6 turns and restarting the chat session."
MAX_HISTORY_TURN == 6
AVAILABLE_MODELS ==
    {"gemini-2.0-flash", "gemini-2.5-flash", "gemini-2.0-pro", "gemini-2.5-pro"}

\* ----------------------------------------------------------------- inputs
\* The routine prompt and reply of the k-th submit carry k, so that every
\* turn of a conversation can be told from every other.
RoutinePrompt(k) == "q" \o ToString(k)
RoutineStream(k) == <<"a", ToString(k)>>
\* Non-routine replies: a fragment without text, no fragment at all, and a
\* reply whose text is the restart notice, delivered in two fragments.
NoticeStream ==
    <<"API request error (429 etc.): ",
      "keeping only the previous 6 turns and restarting the chat session.">>
OddStreams == {<<"">>, <<>>, NoticeStream}
OddPrompts == {RESTART_MESSAGE}
ErrorTexts == {"503 unavailable"}

\* ---------------------------------------------------------------- helpers
NoChat == [id |-> 0, model |-> "", history |-> <<>>]

\* lst[-n:]
LastN(lst, n) == IF Len(lst) <= n THEN lst ELSE SubSeq(lst, Len(lst) - n + 1, Len(lst))

role_map_unmapped(role) == role

\* role_map = {"user": "user", "assistant": "model"}
role_map(role) == IF role = "user" THEN "user" ELSE "model"

\* types.Content(role=role_map[msg["role"]], parts=[Part.from_text(msg["content"])])
Content(msg) == [role |-> role_map(msg.role), text |-> msg.content]

ReplayedWithoutLast(hist, n) == [i \in 1..(IF n > 0 THEN n - 1 ELSE 0) |-> Content(hist[i])]

\* the loop over history_to_restore, stopped after n turns
Replayed(hist, n) == [i \in 1..n |-> Content(hist[i])]

RestartTurn == [role |-> "assistant", content |-> RESTART_MESSAGE]
RestartLogEntryDefaultModel(m) ==
    [Role |-> "assistant", Content |-> RESTART_MESSAGE, Model |-> DEFAULT_MODEL]

\* the entry of lines 79-84, Model = st.session_state.model_name
RestartLogEntry(m) == [Role |-> "assistant", Content |-> RESTART_MESSAGE, Model |-> m]

RestoredMessagesNoNotice(hist) == hist

\* st.session_state.messages = history_to_restore; messages.append(notice)
RestoredMessages(hist) == Append(hist, RestartTurn)

RestoredLogSkipped(log, m) == log

RestoredLogTruncated(log, m) == Append(LastN(log, MAX_HISTORY_TURN * 2), RestartLogEntry(m))

\* history_log.append(notice entry), with the logging option on or off
RestoredLog(log, m) == Append(log, RestartLogEntry(m))

\* the else branch: st.session_state.messages = []; history_log = []
FreshMessages(msgs) == <<>>

FreshLogKept(log) == log

FreshLog(log) == <<>>

HistoryToKeepHalf(msgs) == LastN(msgs, MAX_HISTORY_TURN)

HistoryToKeepBeforePrompt(msgs) ==
    LastN(SubSeq(msgs, 1, Len(msgs) - 1), MAX_HISTORY_TURN * 2)

HistoryToKeepTen(msgs) == LastN(msgs, MAX_HISTORY_TURN * 2 - 2)

\* messages[-(MAX_HISTORY_TURN * 2):]
HistoryToKeep(msgs) == LastN(msgs, MAX_HISTORY_TURN * 2)

\* full_response += chunk.text, if chunk.text
Accumulate(acc, text) == IF text # "" THEN acc \o text ELSE acc

\* f"... {e}" of the generic handler
Apology(e) == "Sorry, an error occurred: " \o e

GenericReplyAppended(acc, e) == acc \o Apology(e)

\* the generic handler's assignment to full_response
GenericReply(acc, e) == Apology(e)

ShouldRecordNonEmpty(text) == text # ""

\* if full_response and full_response != RESTART_MESSAGE
ShouldRecord(text) == text # "" /\ text # RESTART_MESSAGE

ShouldLogReplyAlways(flag) == TRUE

\* if st.session_state.auto_log
ShouldLogReply(flag) == flag

UserTurn(p) == [role |-> "user", content |-> p]
AssistantTurn(t) == [role |-> "assistant", content |-> t]
LogEntry(r, t, m) == [Role |-> r, Content |-> t, Model |-> m]

FallsThrough == "record"

\* st.rerun() / st.stop() inside initialize_client_and_chat: the script run
\* ends there, whoever the caller is
ScriptEnds == "idle"

NeedsInitFirstRunOnly(chat, mname, sel) == chat.id = 0

\* 'gemini_chat' not in st.session_state or model_name != selected_model
NeedsInit(chat, mname, sel) == chat.id = 0 \/ mname # sel

Snapshot == [messages |-> messages, log |-> history_log,
             chat |-> gemini_chat, model |-> model_name]

Init ==
    /\ gemini_chat = NoChat
    /\ model_name = DEFAULT_MODEL
    /\ selected_model = DEFAULT_MODEL
    /\ auto_log = FALSE
    /\ messages = <<>>
    /\ history_log = <<>>
    /\ pc = "idle"
    /\ prompt = ""
    /\ response = <<>>
    /\ full_response = ""
    /\ last = "none"
    /\ pre = [messages |-> <<>>, log |-> <<>>, chat |-> NoChat, model |-> DEFAULT_MODEL]
    /\ restoreFrom = <<>>
    /\ nsub = 0
    /\ dev = 0
    /\ nchat = 0
    /\ restorations = 0

\* ------------------------------------------------- initialize_client_and_chat
\* How one call ends: "ok" (st.rerun() reached), or an exception in
\* genai.Client(...), in client.chats.create(...), or in the replay loop after
\* n turns were appended to the new session's history (st.error; st.stop()).
InitOutcomes(hist) ==
    {[kind |-> "ok", n |-> Len(hist)],
     [kind |-> "client_error", n |-> 0],
     [kind |-> "create_error", n |-> 0]}
    \cup {[kind |-> "replay_error", n |-> i] : i \in 0..(Len(hist) - 1)}

Cost(o) == IF o.kind = "ok" THEN 0 ELSE 1

\* The session object of the call, once chats.create has returned and the
\* replay loop has run for o.n turns.
NewChat(mname, hist, o) ==
    [id |-> nchat + 1, model |-> mname, history |-> Replayed(hist, o.n)]

\* mname, hist: the arguments (hist = <<>> stands for no history_to_restore);
\* msgs0, log0, mname0: the session state when the call is made.
initialize_client_and_chat(mname, hist, o, msgs0, log0, mname0) ==
    /\ o \in InitOutcomes(hist)
    /\ dev + Cost(o) <= MaxDeviations
    /\ IF o.kind \in {"client_error", "create_error"}
       THEN /\ gemini_chat' = gemini_chat
            /\ model_name' = mname0
            /\ nchat' = nchat
       ELSE /\ gemini_chat' = NewChat(mname, hist, o)
            /\ model_name' = mname
            /\ nchat' = nchat + 1
    /\ IF o.kind # "ok"
       THEN /\ messages' = msgs0
            /\ history_log' = log0
            /\ restorations' = restorations
       ELSE IF hist # <<>>
       THEN /\ messages' = RestoredMessages(hist)
            /\ history_log' = RestoredLog(log0, mname)
            /\ restorations' = restorations + 1
       ELSE /\ messages' = FreshMessages(msgs0)
            /\ history_log' = FreshLog(log0)
            /\ restorations' = 0
    /\ last' = IF hist # <<>>
               THEN (IF o.kind = "ok" THEN "restored" ELSE "restore_failed")
               ELSE (IF o.kind = "ok" THEN "fresh_ok" ELSE "fresh_failed")
    /\ restoreFrom' = IF hist # <<>> THEN hist ELSE restoreFrom

\* Lines 98-101: the defaults written while no session object exists.
SetupMessages == IF gemini_chat.id = 0 THEN <<>> ELSE messages
SetupLog == IF gemini_chat.id = 0 THEN <<>> ELSE history_log
SetupModel == IF gemini_chat.id = 0 THEN DEFAULT_MODEL ELSE model_name

\* Line 146-148 for a run whose selectbox shows sel: a full re-initialisation
\* when the check fires, nothing otherwise.
SessionCheck(sel, o) ==
    IF NeedsInit(gemini_chat, SetupModel, sel)
    THEN initialize_client_and_chat(sel, <<>>, o, SetupMessages, SetupLog, SetupModel)
    ELSE /\ o.kind = "ok"
         /\ gemini_chat' = gemini_chat
         /\ model_name' = SetupModel
         /\ messages' = SetupMessages
         /\ history_log' = SetupLog
         /\ nchat' = nchat
         /\ restorations' = restorations
         /\ restoreFrom' = restoreFrom
         /\ last' = "noop"

AllOutcomes == InitOutcomes(<<>>)

\* ---------------------------------------------------------------- actions
\* A script run with no widget changed while the session check fires: the
\* first run of the page, and any run after a failed initialisation (a prompt
\* typed then is not processed, the run ends inside the check).
Rerun ==
    /\ pc = "idle"
    /\ NeedsInit(gemini_chat, SetupModel, selected_model)
    /\ \E o \in AllOutcomes :
        /\ SessionCheck(selected_model, o)
        /\ dev' = dev + Cost(o)
    /\ pre' = Snapshot
    /\ UNCHANGED <<selected_model, auto_log, pc, prompt, response, full_response, nsub>>

\* The operator picks another model in the selectbox.
SelectModel ==
    /\ pc = "idle"
    /\ dev < MaxDeviations
    /\ \E m \in AVAILABLE_MODELS \ {selected_model} : \E o \in AllOutcomes :
        /\ selected_model' = m
        /\ dev + 1 + Cost(o) <= MaxDeviations
        /\ SessionCheck(m, o)
        /\ dev' = dev + 1 + Cost(o)
    /\ pre' = Snapshot
    /\ UNCHANGED <<auto_log, pc, prompt, response, full_response, nsub>>

\* The reset button: line 120-121.
ResetButton ==
    /\ pc = "idle"
    /\ dev < MaxDeviations
    /\ \E o \in AllOutcomes :
        /\ dev + 1 + Cost(o) <= MaxDeviations
        /\ initialize_client_and_chat(selected_model, <<>>, o,
                                      SetupMessages, SetupLog, SetupModel)
        /\ dev' = dev + 1 + Cost(o)
    /\ pre' = Snapshot
    /\ UNCHANGED <<selected_model, auto_log, pc, prompt, response, full_response, nsub>>

\* The logging checkbox: line 129, then the session check of the same run.
ToggleAutoLog ==
    /\ pc = "idle"
    /\ dev < MaxDeviations
    /\ auto_log' = ~auto_log
    /\ \E o \in AllOutcomes :
        /\ dev + 1 + Cost(o) <= MaxDeviations
        /\ SessionCheck(selected_model, o)
        /\ dev' = dev + 1 + Cost(o)
    /\ pre' = Snapshot
    /\ UNCHANGED <<selected_model, pc, prompt, response, full_response, nsub>>

\* Lines 162-184: a prompt is submitted on a run that passes the session
\* check; the user turn and its log entry are appended and the send starts.
Submit ==
    /\ pc = "idle"
    /\ ~NeedsInit(gemini_chat, model_name, selected_model)
    /\ nsub < MaxSubmits
    /\ \E p \in {RoutinePrompt(nsub + 1)} \cup OddPrompts :
       \E r \in {RoutineStream(nsub + 1)} \cup OddStreams :
        LET c == (IF p \in OddPrompts THEN 1 ELSE 0) + (IF r \in OddStreams THEN 1 ELSE 0)
        IN  /\ dev + c <= MaxDeviations
            /\ dev' = dev + c
            /\ prompt' = p
            /\ response' = r
            /\ messages' = Append(messages, UserTurn(p))
            /\ history_log' = Append(history_log, LogEntry("user", p, model_name))
    /\ full_response' = ""
    /\ pc' = "sending"
    /\ last' = "submit"
    /\ nsub' = nsub + 1
    /\ pre' = Snapshot
    /\ UNCHANGED <<gemini_chat, model_name, selected_model, auto_log,
                   restoreFrom, nchat, restorations>>

\* Lines 187-190: one fragment of the reply arrives.
Chunk ==
    /\ pc = "sending"
    /\ response # <<>>
    /\ full_response' = Accumulate(full_response, Head(response))
    /\ response' = Tail(response)
    /\ UNCHANGED <<gemini_chat, model_name, selected_model, auto_log, messages,
                   history_log, pc, prompt, last, pre, restoreFrom,
                   nsub, dev, nchat, restorations>>

\* Line 192: the fragment sequence has ended.
StreamEnd ==
    /\ pc = "sending"
    /\ response = <<>>
    /\ pc' = "record"
    /\ last' = "reply"
    /\ UNCHANGED <<gemini_chat, model_name, selected_model, auto_log, messages,
                   history_log, prompt, response, full_response, pre, restoreFrom,
                   nsub, dev, nchat, restorations>>

\* Lines 203-205: any other exception of the send or of the iteration.
GenericError ==
    /\ pc = "sending"
    /\ dev < MaxDeviations
    /\ \E e \in ErrorTexts : full_response' = GenericReply(full_response, e)
    /\ pc' = "record"
    /\ last' = "generic"
    /\ dev' = dev + 1
    /\ UNCHANGED <<gemini_chat, model_name, selected_model, auto_log, messages,
                   history_log, prompt, response, pre, restoreFrom,
                   nsub, nchat, restorations>>

\* Lines 194-200: the quota error; the call ends the script run.
QuotaError ==
    /\ pc = "sending"
    /\ dev < MaxDeviations
    /\ \E o \in InitOutcomes(HistoryToKeep(messages)) :
        /\ dev + 1 + Cost(o) <= MaxDeviations
        /\ initialize_client_and_chat(model_name, HistoryToKeep(messages), o,
                                      messages, history_log, model_name)
        /\ dev' = dev + 1 + Cost(o)
    /\ pc' = ScriptEnds
    /\ UNCHANGED <<selected_model, auto_log, prompt, response, full_response, pre, nsub>>

\* Lines 207-220: record the reply, then st.rerun().
Record ==
    /\ pc = "record"
    /\ IF ShouldRecord(full_response)
       THEN /\ messages' = Append(messages, AssistantTurn(full_response))
            /\ history_log' =
                 IF ShouldLogReply(auto_log)
                 THEN Append(history_log, LogEntry("assistant", full_response, model_name))
                 ELSE history_log
       ELSE UNCHANGED <<messages, history_log>>
    /\ pc' = "idle"
    /\ UNCHANGED <<gemini_chat, model_name, selected_model, auto_log, prompt,
                   response, full_response, last, pre, restoreFrom,
                   nsub, dev, nchat, restorations>>

Next ==
    \/ Rerun
    \/ SelectModel
    \/ ResetButton
    \/ ToggleAutoLog
    \/ Submit
    \/ Chunk
    \/ StreamEnd
    \/ GenericError
    \/ QuotaError
    \/ Record

Spec == Init /\ [][Next]_vars

\* ================================================================ claims
Quiescent(kind) == pc = "idle" /\ last = kind

\* s is a sequence of completed user/assistant pairs
IsPairs(s) ==
    /\ Len(s) % 2 = 0
    /\ \A i \in 1..Len(s) : s[i].role = (IF i % 2 = 1 THEN "user" ELSE "assistant")

\* w occurs in s as a block of consecutive entries
Contains(s, w) == \E i \in 0..(Len(s) - Len(w)) : SubSeq(s, i + 1, i + Len(w)) = w

Min(a, b) == IF a <= b THEN a ELSE b

\* C1: after a restoration that N completed pairs preceded, the transcript
\* still holds all N pairs when N <= MAX_HISTORY_TURN, and holds exactly the
\* most recent MAX_HISTORY_TURN pairs, in order, when N > MAX_HISTORY_TURN.
C1_RestorationWindowByPairs ==
    (Quiescent("restored") /\ IsPairs(pre.messages)) =>
        LET kept == LastN(pre.messages, 2 * MAX_HISTORY_TURN)
            ndropped == Len(pre.messages) - Len(kept)
        IN  /\ Contains(messages, kept)
            /\ \A i \in 1..ndropped : \A j \in 1..Len(messages) :
                   messages[j] # pre.messages[i]

\* C2 as stated: P completed pairs before the send that raises the quota
\* error leave min(2P, 12) + 1 entries after restoration.
C2_EntryCountAsStated ==
    (Quiescent("restored") /\ IsPairs(pre.messages)) =>
        Len(messages) = Min(Len(pre.messages), 2 * MAX_HISTORY_TURN) + 1

\* C2 (amended): P completed pairs before the send that raises the quota
\* error leave min(2P + 1, 12) + 1 entries after restoration: the window is
\* cut from the transcript that already holds the triggering user turn.
C2_EntryCount ==
    (Quiescent("restored") /\ IsPairs(pre.messages)) =>
        Len(messages) = Min(Len(pre.messages) + 1, 2 * MAX_HISTORY_TURN) + 1

C2_Witness ==
    /\ Quiescent("restored")
    /\ IsPairs(pre.messages)
    /\ Len(pre.messages) = 14
    /\ Len(messages) = 13

\* C3: after every successful restoration the last transcript entry is the
\* restart notice with role assistant.
C3_LastEntryIsNotice ==
    Quiescent("restored") =>
        /\ messages # <<>>
        /\ messages[Len(messages)] = [role |-> "assistant", content |-> RESTART_MESSAGE]

C3_Witness ==
    /\ Quiescent("restored")
    /\ auto_log
    /\ Len(pre.messages) >= 2
    /\ messages[Len(messages)].content = RESTART_MESSAGE

NoticeCount(log) ==
    Cardinality({i \in 1..Len(log) :
                    log[i].Role = "assistant" /\ log[i].Content = RESTART_MESSAGE})

\* C4: the number of restart-notice entries in the log equals the number of
\* restorations completed since the last full reset, in every state.
C4_NoticeOncePerRestoration == NoticeCount(history_log) = restorations

C4_Witness ==
    /\ Quiescent("restored")
    /\ restorations = 2
    /\ NoticeCount(history_log) = 2

\* C5 as stated: a cycle that re-initialises the session for the selected
\* model (or for the reset button) ends with an empty transcript and an empty
\* log, also when the session creation fails.
C5_ModelChangeAlwaysEmpties ==
    (pc = "idle" /\ last \in {"fresh_ok", "fresh_failed"}) =>
        messages = <<>> /\ history_log = <<>>

\* C5 (amended): a cycle that starts with the selected model different from
\* the session's, or with the reset button, re-initialises without history;
\* when the creation succeeds it ends with an empty transcript and log and the
\* session on the selected model; when it fails the cycle halts with
\* transcript, log and session as they were, and the mismatch persists only so.
C5_FullResetOnSuccess ==
    /\ Quiescent("fresh_ok") =>
          /\ messages = <<>>
          /\ history_log = <<>>
          /\ model_name = selected_model
          /\ gemini_chat.id # 0 /\ gemini_chat.model = selected_model
    /\ Quiescent("fresh_failed") =>
          /\ messages = pre.messages
          /\ history_log = pre.log
          /\ gemini_chat = pre.chat
    /\ (pc = "idle" /\ gemini_chat.id # 0 /\ model_name # selected_model) =>
          last = "fresh_failed"

C5_Witness ==
    /\ Quiescent("fresh_ok")
    /\ pre.messages # <<>>
    /\ pre.log # <<>>
    /\ pre.model # model_name
    /\ messages = <<>>

RoleBack(r) == IF r = "model" THEN "assistant" ELSE "user"

\* C6: after a restoration from W the new session's history has W's length,
\* W's texts, the roles user -> user and assistant -> model, and maps back to W.
C6_ReplayRoundTrip ==
    Quiescent("restored") =>
        LET H == gemini_chat.history
            W == restoreFrom
        IN  /\ Len(H) = Len(W)
            /\ \A i \in 1..Len(W) :
                  /\ H[i].text = W[i].content
                  /\ W[i].role = "user" => H[i].role = "user"
                  /\ W[i].role = "assistant" => H[i].role = "model"
            /\ [i \in 1..Len(H) |-> [role |-> RoleBack(H[i].role), content |-> H[i].text]] = W

C6_Witness ==
    /\ Quiescent("restored")
    /\ Len(restoreFrom) = 2 * MAX_HISTORY_TURN
    /\ Len(gemini_chat.history) = 2 * MAX_HISTORY_TURN
    /\ \E i \in 1..Len(restoreFrom) : restoreFrom[i].role = "assistant"

\* what a normally recorded reply adds to the transcript and to the log
ReplyAdded ==
    /\ messages = pre.messages \o <<[role |-> "user", content |-> prompt],
                                    [role |-> "assistant", content |-> full_response]>>
    /\ history_log =
          pre.log \o <<[Role |-> "user", Content |-> prompt, Model |-> pre.model]>>
                  \o (IF auto_log
                      THEN <<[Role |-> "assistant", Content |-> full_response,
                              Model |-> pre.model]>>
                      ELSE <<>>)

\* C7 as stated: a submit that completes normally with a non-empty reply adds
\* the user and the assistant turn, and logs the assistant entry iff the
\* logging option is on.
C7_PerTurnLoggingAsStated ==
    (Quiescent("reply") /\ full_response # "") => ReplyAdded

\* C7 (amended): the same for a non-empty reply other than the restart notice
\* text.
C7_PerTurnLogging ==
    (Quiescent("reply") /\ full_response # "" /\ full_response # RESTART_MESSAGE)
        => ReplyAdded

C7_Witness ==
    /\ Quiescent("reply")
    /\ ~auto_log
    /\ full_response = "a1"
    /\ messages = <<[role |-> "user", content |-> "q1"],
                    [role |-> "assistant", content |-> "a1"]>>
    /\ Len(history_log) = 1

\* C8: after a generic error of the send the session and its model are the
\* ones of before, nothing is cut, the transcript gains the user turn and one
\* assistant turn holding the apology text, the log gains the user entry and
\* the apology entry iff the logging option is on, and a further prompt is
\* accepted.
C8_GenericError ==
    Quiescent("generic") =>
        /\ gemini_chat = pre.chat
        /\ model_name = pre.model
        /\ \E e \in ErrorTexts :
              full_response = "Sorry, an error occurred: " \o e
        /\ ReplyAdded
        /\ nsub < MaxSubmits => ENABLED Submit

C8_Witness ==
    /\ Quiescent("generic")
    /\ auto_log
    /\ response = <<ToString(nsub)>>
    /\ Len(messages) = Len(pre.messages) + 2
    /\ Len(history_log) = Len(pre.log) + 2

\* C9: a failed initialisation leaves session, transcript and log as they
\* were when the call was made.
C9_NoPartialSession ==
    /\ Quiescent("fresh_failed") =>
          /\ gemini_chat = pre.chat
          /\ messages = pre.messages
          /\ history_log = pre.log
    /\ Quiescent("restore_failed") =>
          /\ gemini_chat = pre.chat
          /\ messages = Append(pre.messages, [role |-> "user", content |-> prompt])
          /\ history_log = Append(pre.log, [Role |-> "user", Content |-> prompt,
                                            Model |-> pre.model])

\* C10: with no submit in flight, after submits, restorations, generic errors
\* and resets, the transcript has an even number of entries.
C10_EvenAtQuiescence ==
    (pc = "idle" /\ last \in {"reply", "generic", "restored", "fresh_ok", "noop"}) =>
        Len(messages) % 2 = 0

\* the transcript has a turn with the role and content of the log entry e
Reflected(e, msgs) ==
    \E j \in 1..Len(msgs) : msgs[j].role = e.Role /\ msgs[j].content = e.Content

IsNoticeEntry(e) == e.Role = "assistant" /\ e.Content = RESTART_MESSAGE

\* C11: in every state every log entry other than a restart notice has a
\* turn with the same role and content in the transcript.
C11_LogReflectedInTranscript ==
    \A i \in 1..Len(history_log) :
        ~IsNoticeEntry(history_log[i]) => Reflected(history_log[i], messages)

IsPrefix(s, t) == Len(s) <= Len(t) /\ SubSeq(t, 1, Len(s)) = s

\* a step that completes a full re-initialisation (model change, first run,
\* reset button)
FullResetStep == last' = "fresh_ok" /\ nchat' = nchat + 1

\* a step that completes a restoration
RestorationStep == last' = "restored" /\ nchat' = nchat + 1

\* C12: every step other than a full reset leaves the old log as a prefix of
\* the new one; a restoration appends exactly the notice entry to the log and
\* cuts only the transcript.
C12_LogAppendOnly ==
    [][/\ ~FullResetStep => IsPrefix(history_log, history_log')
       /\ RestorationStep =>
             /\ Len(history_log') = Len(history_log) + 1
             /\ IsNoticeEntry(history_log'[Len(history_log')])
             /\ Len(messages') <= 2 * MAX_HISTORY_TURN + 1]_vars

C12_Witness ==
    /\ Quiescent("restored")
    /\ Len(pre.messages) >= 2 * MAX_HISTORY_TURN
    /\ Len(pre.log) >= 2 * MAX_HISTORY_TURN
    /\ Len(history_log) = Len(pre.log) + 2
    /\ Len(messages) = 2 * MAX_HISTORY_TURN + 1

\* C13: when the transcript holds fewer than 12 turns at the quota error,
\* the restoration keeps all of them in order, followed by the notice.
C13_SmallHistoryKept ==
    (Quiescent("restored") /\ Len(pre.messages) + 1 < 2 * MAX_HISTORY_TURN) =>
        messages = pre.messages \o <<[role |-> "user", content |-> prompt],
                                     [role |-> "assistant", content |-> RESTART_MESSAGE]>>

C13_Witness ==
    /\ Quiescent("restored")
    /\ Len(pre.messages) = 2 * MAX_HISTORY_TURN - 2
    /\ Len(messages) = 2 * MAX_HISTORY_TURN
    /\ messages[1] = pre.messages[1]

\* C14: a quota error re-creates the session exactly once, sends nothing
\* again, and leaves the triggering user turn immediately followed by the
\* restart notice as the last two transcript entries.
C14_OneShotRestoration ==
    Quiescent("restored") =>
        /\ gemini_chat.id = pre.chat.id + 1
        /\ nchat = gemini_chat.id
        /\ Len(messages) >= 2
        /\ messages[Len(messages) - 1] = [role |-> "user", content |-> prompt]
        /\ messages[Len(messages)] = [role |-> "assistant", content |-> RESTART_MESSAGE]
        /\ Len(messages) = Len(restoreFrom) + 1

C14_Witness ==
    /\ Quiescent("restored")
    /\ full_response = "a"
    /\ response # <<>>
    /\ messages[Len(messages) - 1].content = prompt
    /\ gemini_chat.id = 2

UserEntry == [Role |-> "user", Content |-> prompt, Model |-> pre.model]

\* C15: while the send is in flight the transcript and the log are the ones
\* of before the submit plus the user turn / user entry, and both are still
\* there when the cycle has ended, whatever its outcome.
C15_UserTurnAlwaysKept ==
    /\ pc = "sending" =>
          /\ messages = Append(pre.messages, [role |-> "user", content |-> prompt])
          /\ history_log = Append(pre.log, UserEntry)
    /\ (pc = "record"
        \/ (pc = "idle" /\ last \in {"reply", "generic", "restored", "restore_failed"})) =>
          /\ \E j \in 1..Len(messages) :
                messages[j] = [role |-> "user", content |-> prompt]
          /\ Len(history_log) > Len(pre.log)
          /\ history_log[Len(pre.log) + 1] = UserEntry

C15_Witness ==
    /\ Quiescent("restored")
    /\ Len(pre.messages) >= 2 * MAX_HISTORY_TURN
    /\ messages[2 * MAX_HISTORY_TURN] = [role |-> "user", content |-> prompt]
    /\ history_log[Len(pre.log) + 1] = UserEntry

\* C16: a normally completed send whose reply is empty or is the restart
\* notice text adds only the user turn and the user entry; any other reply
\* adds the assistant turn after the user turn.
C16_NoticeReplySuppressed ==
    Quiescent("reply") =>
        IF full_response = "" \/ full_response = RESTART_MESSAGE
        THEN /\ messages = Append(pre.messages, [role |-> "user", content |-> prompt])
             /\ history_log = Append(pre.log, UserEntry)
        ELSE messages = pre.messages \o <<[role |-> "user", content |-> prompt],
                                          [role |-> "assistant", content |-> full_response]>>

C16_Witness ==
    /\ Quiescent("reply")
    /\ auto_log
    /\ full_response = RESTART_MESSAGE
    /\ Len(messages) = Len(pre.messages) + 1
    /\ Len(history_log) = Len(pre.log) + 1

\* C17: while a prompt is being processed a session object exists and its
\* model, like the recorded model name, is the selected model.
C17_SendOnlyOnCurrentSession ==
    pc \in {"sending", "record"} =>
        /\ gemini_chat.id # 0
        /\ gemini_chat.model = selected_model
        /\ model_name = selected_model

C17_Witness ==
    /\ pc = "sending"
    /\ selected_model # DEFAULT_MODEL
    /\ gemini_chat.model = selected_model
    /\ gemini_chat.id >= 2

\* C18: in every state every log entry carries the model of the active
\* session.
C18_LogModelIsSessionModel ==
    \A i \in 1..Len(history_log) :
        /\ gemini_chat.id # 0
        /\ history_log[i].Model = gemini_chat.model
        /\ history_log[i].Model = model_name

C18_Witness ==
    /\ Quiescent("restored")
    /\ model_name # DEFAULT_MODEL
    /\ Len(history_log) >= 2
    /\ history_log[Len(history_log)].Model = model_name

\* the session history read back as transcript turns
HistoryAsTurns(H) == [i \in 1..Len(H) |-> [role |-> RoleBack(H[i].role), content |-> H[i].text]]

\* C19: right after a restoration the new session's history is the
\* transcript without its final notice, and ends with the triggering user
\* turn.
C19_ReplayedHistoryIsTranscriptMinusNotice ==
    Quiescent("restored") =>
        LET H == gemini_chat.history
        IN  /\ HistoryAsTurns(H) = SubSeq(messages, 1, Len(messages) - 1)
            /\ H # <<>>
            /\ H[Len(H)] = [role |-> "user", text |-> prompt]

C19_Witness ==
    /\ Quiescent("restored")
    /\ Len(gemini_chat.history) = 2 * MAX_HISTORY_TURN
    /\ Len(messages) = 2 * MAX_HISTORY_TURN + 1
    /\ gemini_chat.history[1].role = "model"
    /\ gemini_chat.history[2 * MAX_HISTORY_TURN].text = prompt
====
